---- MODULE Spec2Model ----
(***************************************************************************)
(* A model of src/src/block.c: the block layer of the sky event store.     *)
(* Header codec (sky_block_pack / sky_block_unpack), block addressing      *)
(* (sky_block_get_offset / sky_block_get_ptr), span resolution             *)
(* (sky_block_get_span_count), path location (sky_block_get_path_ptr),     *)
(* splitting (sky_block_split_with_event) and sky_block_add_event.         *)
(*                                                                         *)
(* Machine integers are sequences of base-256 digits, most significant     *)
(* digit first, so that uint32_t, size_t and the 64-bit header fields keep *)
(* their width: all arithmetic below is modulo 256^Len.                    *)
(***************************************************************************)
EXTENDS Integers, Sequences, FiniteSets, TLC

VARIABLES
    pc,         \* position of the running call: "idle", a loop label, "done", "fault"
    op,         \* the operation that is running or has last returned
    rc,         \* its return code (0 or -1)
    arg,        \* the arguments of the running or last call
    \* ---- header codec
    hostLE,     \* TRUE on a little-endian host
    blk,        \* fields of the block object unpack writes into
    mem,        \* the 32 bytes at the buffer cursor
    sz,         \* the caller's size_t slot (*sz)
    packedFrom, \* history: the header mem was last packed from
    \* ---- block addressing
    size_bytes, \* sizeof(size_t) of the build
    data_file,  \* the data file of the addressed blocks, or NULL
    offset,     \* the caller's offset slot (*offset)
    ptr,        \* the caller's pointer slot (*ptr)
    offsets,    \* history: block index -> offset returned for it
    \* ---- spanning
    blocks,     \* min_object_id of data_file->blocks[0 .. block_count-1]
    sblock,     \* the block passed to sky_block_get_span_count
    index,      \* the loop's uint32_t index
    count,      \* the caller's count slot (*count)
    reads,      \* history: the indices of blocks[] the call has read
    \* ---- paths, splitting and events
    paths,      \* per block of the data file, its path records in storage order
    block_size, \* data_file->block_size, in the units of the record sizes
    ret,        \* the caller's result slot (*ret)
    iterator    \* the path iterator of the running call

vars == << pc, op, rc, arg, hostLE, blk, mem, sz, packedFrom,
           size_bytes, data_file, offset, ptr, offsets,
           blocks, sblock, index, count, reads,
           paths, block_size, ret, iterator >>

codecVars == << hostLE, blk, mem, sz, packedFrom >>
addrVars  == << size_bytes, data_file, offset, ptr, offsets >>
spanVars  == << blocks, sblock, index, count, reads >>
pathVars  == << paths, block_size, ret, iterator >>

\* A null pointer. Pointers to the caller's slots and buffers are 1-tuples.
NULL == << >>

----------------------------------------------------------------------------
(* Machine words: base-256 digits, most significant first.                  *)

Zeros(n) == [i \in 1 .. n |-> 0]

\* The i-th least significant digit of w, i = 0 .. Len(w)-1.
Digit(w, i) == w[Len(w) - i]

\* A natural number below 2^24 as a word of n bytes.
NatToWord(x, n) ==
    [i \in 1 .. n |-> IF n - i = 0 THEN x % 256
                      ELSE IF n - i = 1 THEN (x \div 256) % 256
                      ELSE IF n - i = 2 THEN (x \div 65536) % 256
                      ELSE 0]

\* The value of a word that is below 2^24.
WordToNat(w) ==
    LET n == Len(w)
    IN  (IF n >= 1 THEN w[n] ELSE 0)
        + (IF n >= 2 THEN 256 * w[n - 1] ELSE 0)
        + (IF n >= 3 THEN 65536 * w[n - 2] ELSE 0)

IsSmall(w) == \A i \in 1 .. Len(w) : i <= Len(w) - 3 => w[i] = 0

\* Zero-extension (n >= Len(w)) or truncation (n < Len(w)) to n bytes.
Resize(w, n) ==
    [i \in 1 .. n |-> IF i + Len(w) - n >= 1 THEN w[i + Len(w) - n] ELSE 0]

\* Digit-wise addition with carry, least significant digit first.
RECURSIVE AddDigits(_, _, _)
AddDigits(a, b, c) ==
    IF a = << >> THEN << >>
    ELSE << (Head(a) + Head(b) + c) % 256 >>
         \o AddDigits(Tail(a), Tail(b), (Head(a) + Head(b) + c) \div 256)

\* A word times one digit, least significant digit first, cut to Len(a).
RECURSIVE MulDigit(_, _, _)
MulDigit(a, d, c) ==
    IF a = << >> THEN << >>
    ELSE << (Head(a) * d + c) % 256 >>
         \o MulDigit(Tail(a), d, (Head(a) * d + c) \div 256)

\* The product cut to Len(a) digits, least significant digit first:
\* a * b = a * b[1] + 256 * (a * Tail(b)).
RECURSIVE MulDigits(_, _)
MulDigits(a, b) ==
    IF a = << >> THEN << >>
    ELSE IF b = << >> THEN [i \in 1 .. Len(a) |-> 0]
    ELSE AddDigits(MulDigit(a, Head(b), 0),
                   << 0 >> \o MulDigits(SubSeq(a, 1, Len(a) - 1), Tail(b)), 0)

Reverse(s) == [i \in 1 .. Len(s) |-> s[Len(s) + 1 - i]]

\* a + b + cin modulo 256^Len(a).
AddWithCarry(a, b, cin) == Reverse(AddDigits(Reverse(a), Reverse(b), cin))

Add(a, b) == AddWithCarry(a, b, 0)

Complement(a) == [i \in 1 .. Len(a) |-> 255 - a[i]]

\* a - b modulo 256^Len(a).
Sub(a, b) == AddWithCarry(a, Complement(b), 1)

Inc(a) == Add(a, NatToWord(1, Len(a)))

Dec(a) == Sub(a, NatToWord(1, Len(a)))

\* Unsigned a < b, for words of one length.
Less(a, b) ==
    \E i \in 1 .. Len(a) :
        /\ a[i] < b[i]
        /\ \A j \in 1 .. i - 1 : a[j] = b[j]

\* a * b modulo 256^Len(a), for words of one length.
Mul(a, b) == Reverse(MulDigits(Reverse(a), Reverse(b)))

\* The product of a and b in full, Len(a) + Len(b) bytes wide.
FullProduct(a, b) ==
    Mul(Resize(a, Len(a) + Len(b)), Resize(b, Len(a) + Len(b)))

----------------------------------------------------------------------------
(* Header codec.                                                            *)

\* 64-bit sample values: 1, a value with eight distinct bytes, a value with
\* the top bit set, and -2 (a negative timestamp, top bit set).
W_one == <<0, 0, 0, 0, 0, 0, 0, 1>>
W_mix == <<1, 2, 3, 4, 5, 6, 7, 8>>
W_top == <<128, 0, 0, 0, 0, 0, 0, 9>>
W_neg == <<255, 255, 255, 255, 255, 255, 255, 254>>

ObjectIdValues == {W_one, W_top}
TimestampValues == {W_mix, W_neg}

\* The header fields of a sky_block.
Headers ==
    [min_object_id : ObjectIdValues, max_object_id : ObjectIdValues,
     min_timestamp : TimestampValues, max_timestamp : TimestampValues]

\* calloc'ed block: every field zero.
ZeroHeader ==
    [min_object_id |-> Zeros(8), max_object_id |-> Zeros(8),
     min_timestamp |-> Zeros(8), max_timestamp |-> Zeros(8)]

\* htonll / ntohll: swap the bytes of the value on a little-endian host. The
\* signed timestamps pass through it as their two's-complement bit pattern.
htonll(x) == IF hostLE THEN Reverse(x) ELSE x

ntohll(x) == IF hostLE THEN Reverse(x) ELSE x

\* memwrite copies the object representation of a value: on a little-endian
\* host its least significant byte comes first in memory.
memwrite(v) == IF hostLE THEN Reverse(v) ELSE v

\* memread: the value whose object representation is the bytes read.
memread(bytes) == IF hostLE THEN Reverse(bytes) ELSE bytes

\* The bytes sky_block_pack writes at the cursor.
PackBytesUnswappedTimestamp(b) ==
    memwrite(htonll(b.min_object_id)) \o memwrite(htonll(b.max_object_id))
    \o memwrite(htonll(b.min_timestamp)) \o memwrite(b.max_timestamp)

PackBytes(b) ==
    memwrite(htonll(b.min_object_id)) \o memwrite(htonll(b.max_object_id))
    \o memwrite(htonll(b.min_timestamp)) \o memwrite(htonll(b.max_timestamp))

\* The fields sky_block_unpack reads from the bytes at the cursor.
UnpackFields(m) ==
    [min_object_id |-> ntohll(memread(SubSeq(m, 1, 8))),
     max_object_id |-> ntohll(memread(SubSeq(m, 9, 16))),
     min_timestamp |-> ntohll(memread(SubSeq(m, 17, 24))),
     max_timestamp |-> ntohll(memread(SubSeq(m, 25, 32)))]

\* What a store through a null pointer can do: the process faults, or the
\* store has no visible effect and the function goes on to return.
NullStoreOutcomes == {"fault", "return"}

\* sky_block_pack(block, ptr, sz). b is the block (NULL or its header), p the
\* cursor (NULL or <<"buf">>), s the size slot (NULL or <<"sz">>).
sky_block_pack(b, p, s) ==
    /\ pc = "idle"
    /\ op' = "pack"
    /\ arg' = [block |-> IF b = NULL THEN NULL ELSE <<"block">>, ptr |-> p, sz |-> s]
    /\ IF b = NULL \/ p = NULL
       THEN \* error: return -1; *sz is not touched
            /\ rc' = -1
            /\ UNCHANGED << pc, mem, sz, packedFrom >>
       ELSE /\ mem' = PackBytes(b)
            /\ packedFrom' = b
            /\ sz' = IF s # NULL THEN Len(PackBytes(b)) ELSE sz
            /\ rc' = 0
            /\ UNCHANGED pc
    /\ UNCHANGED << hostLE, blk >>

\* sky_block_unpack(block, ptr, sz). b is NULL or <<"blk">>, the block to fill.
sky_block_unpack(b, p, s) ==
    /\ pc = "idle"
    /\ op' = "unpack"
    /\ arg' = [block |-> b, ptr |-> p, sz |-> s]
    /\ IF b = NULL \/ p = NULL
       THEN \* error: *sz = 0; return -1, with no test of sz
            /\ IF s # NULL
               THEN sz' = 0 /\ rc' = -1 /\ UNCHANGED pc
               ELSE /\ \E out \in NullStoreOutcomes :
                        IF out = "fault"
                        THEN pc' = "fault" /\ UNCHANGED rc
                        ELSE rc' = -1 /\ UNCHANGED pc
                    /\ UNCHANGED sz
            /\ UNCHANGED blk
       ELSE /\ blk' = UnpackFields(mem)
            /\ sz' = IF s # NULL THEN Len(mem) ELSE sz
            /\ rc' = 0
            /\ UNCHANGED pc
    /\ UNCHANGED << hostLE, mem, packedFrom >>

CodecNext ==
    \/ \E b \in Headers \cup {NULL}, p \in {NULL, <<"buf">>}, s \in {NULL, <<"sz">>} :
           sky_block_pack(b, p, s) /\ UNCHANGED << addrVars, spanVars, pathVars >>
    \/ \E b \in {NULL, <<"blk">>}, p \in {NULL, <<"buf">>}, s \in {NULL, <<"sz">>} :
           sky_block_unpack(b, p, s) /\ UNCHANGED << addrVars, spanVars, pathVars >>

----------------------------------------------------------------------------
(* Block addressing.                                                        *)

\* sizeof(size_t): an ILP32 or an LP64 build.
SizeWidths == {4, 8}

\* The word of n bytes with only its top bit set: 2^(8n-1).
TopBit(n) == [i \in 1 .. n |-> IF i = 1 THEN 128 ELSE 0]

\* Sample values of data_file->block_size, as a size_t of n bytes.
BlockSizeValues(n) ==
    {Zeros(n), NatToWord(1, n), NatToWord(4096, n), NatToWord(65536, n), TopBit(n)}

\* Sample values of block->index (uint32_t): 0, 1, 2 and 65536.
IndexValues ==
    {NatToWord(0, 4), NatToWord(1, 4), NatToWord(2, 4), NatToWord(65536, 4)}

\* The data files a block may point to: NULL, or one with a block size and a
\* mapping (data is NULL or the base address).
DataFiles(n) ==
    {NULL} \cup [block_size : BlockSizeValues(n), data : {NULL, NatToWord(65536, n)}]

\* block_size * index as C computes it: the uint32_t index is converted to
\* size_t and the product is taken modulo 2^(8 * sizeof(size_t)).
Offset(bs, idx) == Mul(bs, Resize(idx, Len(bs)))

\* The precondition checks of sky_block_get_offset.
OffsetChecks(b) ==
    /\ b # NULL
    /\ data_file # NULL
    /\ data_file.block_size # Zeros(size_bytes)

\* sky_block_get_offset(block, offset). b is NULL or the block's index, o the
\* offset slot (NULL or <<"offset">>); the store to *offset tests o on no path.
sky_block_get_offset(b, o) ==
    /\ pc = "idle"
    /\ op' = "get_offset"
    /\ arg' = [block |-> b, slot |-> o]
    /\ IF o # NULL
       THEN /\ offset' = IF OffsetChecks(b)
                         THEN Offset(data_file.block_size, b)
                         ELSE Zeros(size_bytes)
            /\ offsets' = IF OffsetChecks(b)
                          THEN [offsets EXCEPT ![b] = Offset(data_file.block_size, b)]
                          ELSE offsets
            /\ rc' = IF OffsetChecks(b) THEN 0 ELSE -1
            /\ UNCHANGED pc
       ELSE /\ \E out \in NullStoreOutcomes :
                IF out = "fault"
                THEN pc' = "fault" /\ UNCHANGED rc
                ELSE rc' = (IF OffsetChecks(b) THEN 0 ELSE -1) /\ UNCHANGED pc
            /\ UNCHANGED << offset, offsets >>
    /\ UNCHANGED << size_bytes, data_file, ptr >>

\* The precondition checks of sky_block_get_ptr, its call of
\* sky_block_get_offset included.
PtrChecks(b) ==
    /\ b # NULL
    /\ data_file # NULL
    /\ data_file.data # NULL
    /\ OffsetChecks(b)

\* sky_block_get_ptr(block, ptr). The offset goes to a local of the function,
\* not to the caller's offset slot.
sky_block_get_ptr(b, o) ==
    /\ pc = "idle"
    /\ op' = "get_ptr"
    /\ arg' = [block |-> b, slot |-> o]
    /\ IF o # NULL
       THEN /\ ptr' = IF PtrChecks(b)
                      THEN Add(data_file.data, Offset(data_file.block_size, b))
                      ELSE NULL
            /\ rc' = IF PtrChecks(b) THEN 0 ELSE -1
            /\ UNCHANGED pc
       ELSE /\ \E out \in NullStoreOutcomes :
                IF out = "fault"
                THEN pc' = "fault" /\ UNCHANGED rc
                ELSE rc' = (IF PtrChecks(b) THEN 0 ELSE -1) /\ UNCHANGED pc
            /\ UNCHANGED ptr
    /\ UNCHANGED << size_bytes, data_file, offset, offsets >>

AddrNext ==
    \/ \E b \in IndexValues \cup {NULL}, o \in {NULL, <<"offset">>} :
           sky_block_get_offset(b, o) /\ UNCHANGED << codecVars, spanVars, pathVars >>
    \/ \E b \in IndexValues \cup {NULL}, o \in {NULL, <<"ptr">>} :
           sky_block_get_ptr(b, o) /\ UNCHANGED << codecVars, spanVars, pathVars >>

----------------------------------------------------------------------------
(* Spanning.                                                                *)

\* Bounds of the span model: the longest blocks array, the largest object
\* id, and how many descriptors past the array a runaway scan may read.
MaxBlocks == 3
MaxId == 2
MaxOverrun == 2

Ids == 1 .. MaxId

\* The blocks arrays of a data file: min_object_id per block, ascending.
BlockArrays ==
    UNION { { a \in [1 .. n -> Ids] : \A i \in 1 .. n - 1 : a[i] <= a[i + 1] }
            : n \in 0 .. MaxBlocks }

\* The blocks that may be passed: a block of the file, or one created by
\* sky_block_create whose fields a caller has set.
SpanBlocks ==
    [index : { NatToWord(i, 4) : i \in 0 .. MaxBlocks } \cup {Complement(Zeros(4))},
     min_object_id : Ids, spanned : BOOLEAN, data_file : {NULL, <<"data_file">>}]

\* data_file->block_count as a uint32_t.
BlockCount == NatToWord(Len(blocks), 4)

\* The first half of the loop's exit test: index > data_file->block_count-1,
\* in unsigned 32-bit arithmetic.
PastEndInclusive(i) == Less(BlockCount, i)

PastEnd(i) == Less(Dec(BlockCount), i)

\* Whether blocks[i] is an element of the array.
InArray(i) == Less(i, BlockCount)

\* The value the function stores to *count.
SpanResult(i) == Sub(i, sblock.index)

\* The precondition checks of sky_block_get_span_count.
SpanChecks(b, c) == b # NULL /\ b.data_file # NULL /\ c # NULL

\* sky_block_get_span_count(block, count): the checks, and the whole call
\* when the block is not spanned. c is the count slot, NULL or <<"count">>.
sky_block_get_span_count(b, c) ==
    /\ pc = "idle"
    /\ op' = "span_count"
    /\ arg' = [block |-> b, slot |-> c]
    /\ reads' = {}
    /\ IF ~SpanChecks(b, c)
       THEN \* error: *count = 0; return -1, with no test of count
            /\ IF c # NULL
               THEN count' = Zeros(4) /\ rc' = -1 /\ UNCHANGED pc
               ELSE /\ \E out \in NullStoreOutcomes :
                        IF out = "fault"
                        THEN pc' = "fault" /\ UNCHANGED rc
                        ELSE rc' = -1 /\ UNCHANGED pc
                    /\ UNCHANGED count
            /\ index' = Zeros(4)
       ELSE IF ~b.spanned
       THEN /\ count' = NatToWord(1, 4)
            /\ rc' = 0
            /\ index' = Zeros(4)
            /\ UNCHANGED pc
       ELSE /\ index' = b.index
            /\ pc' = "span_loop"
            /\ UNCHANGED << rc, count >>
    /\ sblock' = b
    /\ UNCHANGED blocks

\* Leaving the loop: *count = index - block->index; return 0.
SpanBreak(i) ==
    /\ count' = SpanResult(i)
    /\ index' = i
    /\ rc' = 0
    /\ pc' = "idle"

\* One iteration of while(true): index++, then the exit test. A read of
\* blocks[index] past the array yields whatever lies there, or faults.
SpanLoop ==
    /\ pc = "span_loop"
    /\ LET i == Inc(index)
       IN  IF PastEnd(i)
           THEN SpanBreak(i) /\ UNCHANGED reads
           ELSE /\ reads' = reads \cup {i}
                /\ IF InArray(i)
                   THEN IF sblock.min_object_id # blocks[WordToNat(i) + 1]
                        THEN SpanBreak(i)
                        ELSE index' = i /\ UNCHANGED << count, rc, pc >>
                   ELSE \/ pc' = "fault" /\ UNCHANGED << count, rc, index >>
                        \/ SpanBreak(i)
                        \/ /\ Cardinality({r \in reads : ~InArray(r)}) < MaxOverrun
                           /\ index' = i
                           /\ UNCHANGED << count, rc, pc >>
    /\ UNCHANGED << op, arg, blocks, sblock >>

SpanNext ==
    \/ \E b \in SpanBlocks \cup {NULL}, c \in {NULL, <<"count">>} :
           sky_block_get_span_count(b, c) /\ UNCHANGED << codecVars, addrVars, pathVars >>
    \/ SpanLoop /\ UNCHANGED << codecVars, addrVars, pathVars >>

----------------------------------------------------------------------------
(* Paths, splitting and events.                                             *)

\* Bounds of the path model: the largest object id of a path, the largest
\* encoded size of a path record or an event, and the largest block size.
MaxPathId == 3
MaxSize == 3
MaxBlockSize == 3

\* A path record: the object id and the encoded size of its events.
PathRecords == [object_id : 1 .. MaxPathId, size : 1 .. MaxSize]

\* The sum of the sizes of the first k records.
SizeOfFirst(recs, k) ==
    LET sum[i \in 0 .. k] == IF i = 0 THEN 0 ELSE sum[i - 1] + recs[i].size
    IN  sum[k]

Occupied(recs) == SizeOfFirst(recs, Len(recs))

\* The contents of a block: records in ascending object-id order.
PathSeqs ==
    UNION { { r \in [1 .. n -> PathRecords] :
                \A i \in 1 .. n - 1 : r[i].object_id < r[i + 1].object_id }
            : n \in 0 .. MaxPathId }

\* Events: the object id and the encoded size.
Events == [object_id : 1 .. MaxPathId, size : 1 .. MaxSize + 1]

\* The path iterator of path_iterator.h, with the account of its lifetime:
\* how many iterators the call created, how many of those it released, and
\* how many times it applied release to a pointer it never set.
NoIterator == [created |-> 0, released |-> 0, wild_free |-> 0, pos |-> 0]

\* sky_path_iterator_create, then sky_path_iterator_set_block: the iterator
\* stands at the first record of the block.
sky_path_iterator_create == [NoIterator EXCEPT !.created = 1, !.pos = 1]

\* sky_path_iterator_free of the iterator created.
sky_path_iterator_free(it) == [it EXCEPT !.released = @ + 1]

\* sky_path_iterator_free of an uninitialised pointer.
WildFree(it) == [it EXCEPT !.wild_free = @ + 1]

\* iterator->eof and iterator->current_object_id.
Eof(it, recs) == it.pos > Len(recs)

CurrentObjectId(it, recs) == recs[it.pos].object_id

\* sky_path_iterator_get_ptr: the start of the current record, as its byte
\* offset in the block's record area.
sky_path_iterator_get_ptr(it, recs) == << SizeOfFirst(recs, it.pos - 1) >>

\* How the iterator behaves in a call: it works, the bind fails, or reading
\* its pointer fails.
IteratorFaults == {"none", "bind", "ptr"}

\* What releasing an uninitialised pointer can do: fault, or return.
WildFreeOutcomes == {"fault", "return"}

\* The records of the block a call was given (blocks are passed as <<i>>).
Recs == paths[arg.block[1]]

\* sky_block_get_path_ptr(block, object_id, ret), up to the loop.
sky_block_get_path_ptr(b, id, f) ==
    /\ pc = "idle"
    /\ op' = "get_path_ptr"
    /\ arg' = [block |-> b, object_id |-> id, fault |-> f, before |-> paths]
    /\ IF b = NULL \/ ~(id > 0)
       THEN \* error, reached before iterator is set: free(iterator); *ret = NULL
            /\ iterator' = WildFree(NoIterator)
            /\ \E out \in WildFreeOutcomes :
                   IF out = "fault"
                   THEN pc' = "fault" /\ UNCHANGED << ret, rc >>
                   ELSE ret' = NULL /\ rc' = -1 /\ UNCHANGED pc
       ELSE IF f = "bind"
       THEN \* error: free(iterator); *ret = NULL; return -1
            /\ iterator' = sky_path_iterator_free(sky_path_iterator_create)
            /\ ret' = NULL
            /\ rc' = -1
            /\ UNCHANGED pc
       ELSE /\ iterator' = sky_path_iterator_create
            /\ ret' = NULL
            /\ pc' = "loop_test"
            /\ UNCHANGED rc
    /\ UNCHANGED << paths, block_size >>

\* sky_block_split_with_event(block, event, ret), up to the loop.
sky_block_split_with_event(b, e, f) ==
    /\ pc = "idle"
    /\ op' = "split_with_event"
    /\ arg' = [block |-> b, event |-> e, fault |-> f, before |-> paths]
    /\ IF b = NULL \/ e = NULL
       THEN \* error: return -1
            /\ iterator' = NoIterator
            /\ rc' = -1
            /\ UNCHANGED << pc, ret >>
       ELSE IF f = "bind"
       THEN \* error: return -1, the iterator still allocated
            /\ iterator' = sky_path_iterator_create
            /\ ret' = NULL
            /\ rc' = -1
            /\ UNCHANGED pc
       ELSE /\ iterator' = sky_path_iterator_create
            /\ ret' = NULL
            /\ pc' = "loop_test"
            /\ UNCHANGED rc
    /\ UNCHANGED << paths, block_size >>

\* The object id either loop looks for.
Target == IF op = "get_path_ptr" THEN arg.object_id ELSE arg.event.object_id

\* while(!iterator->eof): at the end of the block both functions release the
\* iterator and return 0.
LoopTest ==
    /\ pc = "loop_test"
    /\ IF Eof(iterator, Recs)
       THEN /\ iterator' = sky_path_iterator_free(iterator)
            /\ rc' = 0
            /\ pc' = "idle"
       ELSE /\ pc' = "loop_body"
            /\ UNCHANGED << iterator, rc >>
    /\ UNCHANGED << op, arg, paths, block_size, ret >>

\* The loop body: on a match read the iterator's pointer and break; there is
\* no other statement, so on a mismatch the iterator stays where it is.
LoopBody ==
    /\ pc = "loop_body"
    /\ IF Target = CurrentObjectId(iterator, Recs)
       THEN IF arg.fault = "ptr"
            THEN \* error
                 /\ rc' = -1
                 /\ pc' = "idle"
                 /\ IF op = "get_path_ptr"
                    THEN /\ iterator' = sky_path_iterator_free(iterator)
                         /\ ret' = NULL
                    ELSE UNCHANGED << iterator, ret >>
            ELSE \* break; free(iterator); return 0
                 /\ iterator' = sky_path_iterator_free(iterator)
                 /\ ret' = IF op = "get_path_ptr"
                           THEN sky_path_iterator_get_ptr(iterator, Recs)
                           ELSE ret
                 /\ rc' = 0
                 /\ pc' = "idle"
       ELSE /\ pc' = "loop_test"
            /\ UNCHANGED << iterator, ret, rc >>
    /\ UNCHANGED << op, arg, paths, block_size >>

\* sky_block_add_event(block, event): the checks, then return 0.
sky_block_add_event(b, e) ==
    /\ pc = "idle"
    /\ op' = "add_event"
    /\ arg' = [block |-> b, event |-> e, fault |-> "none", before |-> paths]
    /\ rc' = IF b = NULL \/ e = NULL THEN -1 ELSE 0
    /\ iterator' = NoIterator
    /\ UNCHANGED << pc, paths, block_size, ret >>

PathNext ==
    \/ \E b \in {NULL, <<1>>}, id \in 0 .. MaxPathId, f \in IteratorFaults :
           sky_block_get_path_ptr(b, id, f) /\ UNCHANGED << codecVars, addrVars, spanVars >>
    \/ \E b \in {NULL, <<1>>}, e \in Events \cup {NULL}, f \in IteratorFaults :
           sky_block_split_with_event(b, e, f) /\ UNCHANGED << codecVars, addrVars, spanVars >>
    \/ \E b \in {NULL, <<1>>}, e \in Events \cup {NULL} :
           sky_block_add_event(b, e) /\ UNCHANGED << codecVars, addrVars, spanVars >>
    \/ LoopTest /\ UNCHANGED << codecVars, addrVars, spanVars >>
    \/ LoopBody /\ UNCHANGED << codecVars, addrVars, spanVars >>

----------------------------------------------------------------------------
(* Specifications: one per component. Each starts with no call made, its   *)
(* own component in any of its initial states and the others at rest.      *)

\* A zeroed block and buffer, on a host of either byte order.
CodecInit ==
    /\ pc = "idle"
    /\ op = "none"
    /\ rc = 0
    /\ arg = NULL
    /\ hostLE \in BOOLEAN
    /\ blk = ZeroHeader
    /\ mem = Zeros(32)
    /\ sz = 0
    /\ packedFrom = NULL
    /\ size_bytes = 8
    /\ data_file = NULL
    /\ offset = Zeros(8)
    /\ ptr = NULL
    /\ offsets = [i \in IndexValues |-> NULL]
    /\ blocks = << >>
    /\ sblock = NULL
    /\ index = Zeros(4)
    /\ count = Zeros(4)
    /\ reads = {}
    /\ block_size = 1
    /\ paths = << << >> >>
    /\ ret = NULL
    /\ iterator = NoIterator

CodecSpec == CodecInit /\ [][CodecNext]_vars

\* Any sample data file (or none), built for either size_t; the slots hold 1.
AddrInit ==
    /\ pc = "idle"
    /\ op = "none"
    /\ rc = 0
    /\ arg = NULL
    /\ hostLE = TRUE
    /\ blk = ZeroHeader
    /\ mem = Zeros(32)
    /\ sz = 0
    /\ packedFrom = NULL
    /\ size_bytes \in SizeWidths
    /\ data_file \in DataFiles(size_bytes)
    /\ offset = NatToWord(1, size_bytes)
    /\ ptr = NatToWord(1, size_bytes)
    /\ offsets = [i \in IndexValues |-> NULL]
    /\ blocks = << >>
    /\ sblock = NULL
    /\ index = Zeros(4)
    /\ count = Zeros(4)
    /\ reads = {}
    /\ block_size = 1
    /\ paths = << << >> >>
    /\ ret = NULL
    /\ iterator = NoIterator

AddrSpec == AddrInit /\ [][AddrNext]_vars

\* Any blocks array in ascending min_object_id order; *count holds UINT32_MAX.
SpanInit ==
    /\ pc = "idle"
    /\ op = "none"
    /\ rc = 0
    /\ arg = NULL
    /\ hostLE = TRUE
    /\ blk = ZeroHeader
    /\ mem = Zeros(32)
    /\ sz = 0
    /\ packedFrom = NULL
    /\ size_bytes = 8
    /\ data_file = NULL
    /\ offset = Zeros(8)
    /\ ptr = NULL
    /\ offsets = [i \in IndexValues |-> NULL]
    /\ blocks \in BlockArrays
    /\ sblock = NULL
    /\ index = Zeros(4)
    /\ count = Complement(Zeros(4))
    /\ reads = {}
    /\ block_size = 1
    /\ paths = << << >> >>
    /\ ret = NULL
    /\ iterator = NoIterator

SpanSpec == SpanInit /\ [][SpanNext]_vars

\* One block whose records fit its block size; *ret holds a stale pointer.
PathInit ==
    /\ pc = "idle"
    /\ op = "none"
    /\ rc = 0
    /\ arg = NULL
    /\ hostLE = TRUE
    /\ blk = ZeroHeader
    /\ mem = Zeros(32)
    /\ sz = 0
    /\ packedFrom = NULL
    /\ size_bytes = 8
    /\ data_file = NULL
    /\ offset = Zeros(8)
    /\ ptr = NULL
    /\ offsets = [i \in IndexValues |-> NULL]
    /\ blocks = << >>
    /\ sblock = NULL
    /\ index = Zeros(4)
    /\ count = Zeros(4)
    /\ reads = {}
    /\ block_size \in 1 .. MaxBlockSize
    /\ paths \in { << r >> : r \in { q \in PathSeqs : Occupied(q) <= block_size } }
    /\ ret = << "stale" >>
    /\ iterator = NoIterator

PathSpec == PathInit /\ [][PathNext]_vars

\* A call that has started keeps running: the loop's steps are weakly fair.
FairPathSpec ==
    /\ PathSpec
    /\ WF_vars(LoopTest /\ UNCHANGED << codecVars, addrVars, spanVars >>)
    /\ WF_vars(LoopBody /\ UNCHANGED << codecVars, addrVars, spanVars >>)

----------------------------------------------------------------------------
(* Properties of the header codec (CodecSpec).                              *)

\* C7: unpacking the bytes pack wrote yields the header that was packed,
\* pack reports 32 bytes written and unpack 32 bytes read, and packing the
\* unpacked header again yields the same 32 bytes.
HeaderRoundTrip ==
    /\ (op = "pack" /\ pc = "idle" /\ rc = 0) =>
           /\ Len(mem) = 32
           /\ arg.sz # NULL => sz = 32
    /\ (op = "unpack" /\ pc = "idle" /\ rc = 0 /\ packedFrom # NULL) =>
           /\ blk = packedFrom
           /\ arg.sz # NULL => sz = 32
           /\ PackBytes(blk) = mem

\* A header with top-bit-set fields has been packed and unpacked on a
\* little-endian host.
HeaderRoundTripReached ==
    /\ op = "unpack" /\ pc = "idle" /\ rc = 0 /\ hostLE /\ arg.sz # NULL
    /\ packedFrom # NULL
    /\ blk.min_object_id = W_top
    /\ blk.min_timestamp = W_neg
    /\ blk.max_timestamp = W_mix

\* C5: a call that fails returns its error without a fault, and then every
\* output slot the caller passed holds 0 / NULL.
FailureResetsOutputs ==
    /\ pc # "fault"
    /\ (rc = -1 /\ op \in {"pack", "unpack"} /\ arg.sz # NULL) => sz = 0
    /\ (rc = -1 /\ op = "get_offset" /\ arg.slot # NULL) => offset = Zeros(size_bytes)
    /\ (rc = -1 /\ op = "get_ptr" /\ arg.slot # NULL) => ptr = NULL
    /\ (rc = -1 /\ op = "span_count" /\ arg.slot # NULL) => count = Zeros(4)
    /\ (rc = -1 /\ op = "get_path_ptr" /\ pc = "idle") => ret = NULL

----------------------------------------------------------------------------
(* Properties of block addressing (AddrSpec).                               *)

\* C8: every offset returned for a block of the file is block_size * index
\* with no wrap-around, offsets grow with the index, and the call fails with
\* offset 0 when the data file is absent or its block size is 0.
OffsetExactAndMonotone ==
    /\ \A i \in IndexValues :
           offsets[i] # NULL =>
               Resize(offsets[i], size_bytes + 4) = FullProduct(data_file.block_size, i)
    /\ \A i, j \in IndexValues :
           (Less(i, j) /\ offsets[i] # NULL /\ offsets[j] # NULL) =>
               Less(offsets[i], offsets[j])
    /\ (op = "get_offset" /\ pc = "idle" /\ arg.slot # NULL
            /\ (data_file = NULL \/ data_file.block_size = Zeros(size_bytes))) =>
           (rc = -1 /\ offset = Zeros(size_bytes))

----------------------------------------------------------------------------
(* Properties of spanning (SpanSpec).                                       *)

\* The block passed is the block of the array at its index.
InFile(b) ==
    /\ b # NULL
    /\ b.data_file # NULL
    /\ InArray(b.index)
    /\ blocks[WordToNat(b.index) + 1] = b.min_object_id

\* The length of the maximal run of blocks with the min_object_id of block s
\* (0-based) that starts at s.
RunLength(s) ==
    CHOOSE n \in 1 .. Len(blocks) - s :
        /\ \A k \in s + 1 .. s + n : blocks[k] = blocks[s + 1]
        /\ s + n = Len(blocks) \/ blocks[s + n + 1] # blocks[s + 1]

\* C2: on a spanned block of the file the count is the length of the run of
\* equal min_object_id that starts there; on a block that is not spanned it
\* is 1 and no descriptor is read; 1 <= count <= block_count - start index.
SpanCountIsRunLength ==
    (op = "span_count" /\ pc = "idle" /\ rc = 0) =>
        /\ ~sblock.spanned => (count = NatToWord(1, 4) /\ reads = {})
        /\ InFile(sblock) =>
               LET s == WordToNat(sblock.index)
               IN  /\ sblock.spanned => count = NatToWord(RunLength(s), 4)
                   /\ IsSmall(count)
                   /\ 1 <= WordToNat(count)
                   /\ WordToNat(count) <= Len(blocks) - s

\* A run of two blocks followed by a block of another object has been
\* counted from its first block.
SpanCountReached ==
    /\ op = "span_count" /\ pc = "idle" /\ rc = 0 /\ InFile(sblock)
    /\ sblock.spanned
    /\ sblock.index = Zeros(4)
    /\ Len(blocks) = 3
    /\ blocks[1] = blocks[2]
    /\ blocks[3] # blocks[1]
    /\ count = NatToWord(2, 4)
    /\ reads = {NatToWord(1, 4), NatToWord(2, 4)}

\* C10: the scan of a spanned block reads no descriptor at an index at or
\* past block_count.
NoReadPastArray == \A i \in reads : InArray(i)

----------------------------------------------------------------------------
(* Properties of paths, splitting and events (PathSpec, FairPathSpec).      *)

\* What locating object id `id` among the records is to return: the start of
\* the record with that id, or NULL when there is none.
Located(recs, id) ==
    IF \E k \in 1 .. Len(recs) : recs[k].object_id = id
    THEN << SizeOfFirst(recs, (CHOOSE k \in 1 .. Len(recs) : recs[k].object_id = id) - 1) >>
    ELSE NULL

\* C1: a search for an object id > 0 in a block, with a working iterator,
\* returns 0 with the start of the record of that id, or with NULL when the
\* block holds no such record.
LocateReturns ==
    (op = "get_path_ptr" /\ pc = "loop_test" /\ arg.fault = "none")
        ~> (op = "get_path_ptr" /\ pc = "idle" /\ rc = 0
                /\ ret = Located(Recs, arg.object_id))

\* C6: when a search or a split has ended, every iterator it created has
\* been released once, and release was applied to no other pointer.
IteratorReleasedOnce ==
    (op \in {"get_path_ptr", "split_with_event"} /\ pc \in {"idle", "fault"}) =>
        /\ iterator.released = iterator.created
        /\ iterator.wild_free = 0

\* C9: a split that returns 0 leaves a block in *ret.
SplitReturnsBlock ==
    (op = "split_with_event" /\ pc = "idle" /\ rc = 0) => ret # NULL

\* The encoded size stored for object id `id` in all blocks of `file`.
StoredSize(file, id) ==
    LET inBlock(recs) ==
            IF \E k \in 1 .. Len(recs) : recs[k].object_id = id
            THEN recs[CHOOSE k \in 1 .. Len(recs) : recs[k].object_id = id].size
            ELSE 0
        sum[b \in 0 .. Len(file)] ==
            IF b = 0 THEN 0 ELSE sum[b - 1] + inBlock(file[b])
    IN  sum[Len(file)]

\* C3: after add_event has returned 0 for an event that does not fit the
\* block, there is one block more, every block fits the block size, and the
\* blocks hold what the block held plus the event, each object id once.
SplitPreservesData ==
    (op = "add_event" /\ rc = 0
         /\ Occupied(arg.before[1]) + arg.event.size > block_size) =>
        /\ Len(paths) = Len(arg.before) + 1
        /\ \A b \in 1 .. Len(paths) : Occupied(paths[b]) <= block_size
        /\ \A id \in 1 .. MaxPathId :
               /\ StoredSize(paths, id) =
                      StoredSize(arg.before, id)
                      + (IF id = arg.event.object_id THEN arg.event.size ELSE 0)
               /\ Cardinality({ b \in 1 .. Len(paths) :
                                   \E k \in 1 .. Len(paths[b]) :
                                       paths[b][k].object_id = id }) <= 1

\* C4: add_event of an event larger than a block, into a file with no other
\* path, returns an error.
CapacityErrorReturned ==
    (op = "add_event" /\ arg.block # NULL /\ arg.event # NULL
         /\ arg.before = << << >> >>
         /\ arg.event.size > block_size) =>
        rc # 0

====
